---- MODULE Spec2Model ----
(***************************************************************************)
(* Model of blender-example-cli-cmd.py: a command-line script that checks  *)
(* whether it runs inside Blender (host probe), re-executes itself under   *)
(* Blender when it does not (execBlender), and inside Blender splits the   *)
(* host's argument vector at "--", parses its own arguments and runs the   *)
(* pipeline  sceneprep -> load_obj -> deselect -> subsurf -> save_obj.     *)
(***************************************************************************)
EXTENDS Integers, Sequences, FiniteSets, TLC

(***************************************************************************)
(* Bounds of the model.                                                    *)
(***************************************************************************)
\* longest user argument vector (sys.argv[1:]) that is enumerated
MaxArgs == 4
\* longest tail (separator included) of the argument vector of a host that the
\* user started directly
MaxHostArgs == 3
\* most objects in the scene the host presents when the script starts
MaxInitObjs == 1
\* most objects the input .obj file holds
MaxFileObjs == 2
\* subdivision depth of a modifier an object of the initial scene may carry
PreLevel == 1

(***************************************************************************)
(* Strings of the program.                                                 *)
(***************************************************************************)
\* the command-line tokens a user argument is drawn from
Tokens == {"--", "-v", "-vv", "--levels", "3", "a.obj", "b.obj"}
\* the integer a token converts to under type=int; -1: int() raises ValueError
IntOf(tok) == IF tok = "3" THEN 3 ELSE -1
\* the paths that name an existing regular file
ExistingFiles == {"a.obj"}
\* sys.argv[0] of a process started outside Blender, and Path(__file__).resolve()
ProgName == "blender-example-cli-cmd.py"
SelfPath == "/opt/tools/blender-example-cli-cmd.py"
Platforms == {"Linux", "Windows"}
\* the value argparse stores for a positional whose only string was a "--"
EmptyList == "[]"
\* Python's None where a string is expected (an unset argument, no active object)
None == "None"
\* Python's None and an int where a function result or exit code is expected
PyNone == <<>>
PyInt(n) == <<n>>

\* all sequences over S of length at most n
RECURSIVE SeqsUpTo(_, _)
SeqsUpTo(S, n) ==
  IF n = 0 THEN {<<>>}
  ELSE UNION { shorter \cup {Append(s, x) : s \in {t \in shorter : Len(t) = n - 1}, x \in S}
               : shorter \in {SeqsUpTo(S, n - 1)} }

UserArgs == SeqsUpTo(Tokens, MaxArgs)
HostArgs == SeqsUpTo(Tokens, MaxHostArgs)

(***************************************************************************)
(* execBlender: the host invocation (lines 40-56).                         *)
(***************************************************************************)
blender_bin == "blender"

\* line 41, 46-47: the resolved script path, quoted on Windows
MyPath(sys) == IF sys = "Windows" THEN "\"" \o SelfPath \o "\"" ELSE SelfPath

\* sys.argv[1:]
ArgvTail(av) == SubSeq(av, 2, Len(av))

\* BlenderArgs without the separator in front of the user's arguments
BlenderArgs_NoSeparator(sys, av) ==
  <<blender_bin, "--background", "--factory-startup", "--python", MyPath(sys)>>
    \o ArgvTail(av)

\* BlenderArgs with sys.argv in place of sys.argv[1:]
BlenderArgs_WholeArgv(sys, av) ==
  <<blender_bin, "--background", "--factory-startup", "--python", MyPath(sys), "--">> \o av

\* lines 49-56
BlenderArgs(sys, av) ==
  <<blender_bin, "--background", "--factory-startup", "--python", MyPath(sys), "--">>
    \o ArgvTail(av)

(***************************************************************************)
(* main: the argument splitter (lines 183-184).                            *)
(***************************************************************************)
\* list.index: position of the first occurrence, 0 when absent (ValueError)
RECURSIVE IndexFrom(_, _, _)
IndexFrom(av, x, i) ==
  IF i > Len(av) THEN 0
  ELSE IF av[i] = x THEN i
  ELSE IndexFrom(av, x, i + 1)

Index(av, x) == IndexFrom(av, x, 1)

\* the position of the last occurrence, 0 when absent
RECURSIVE LastIndexFrom(_, _, _)
LastIndexFrom(av, x, i) ==
  IF i = 0 THEN 0
  ELSE IF av[i] = x THEN i
  ELSE LastIndexFrom(av, x, i - 1)

\* SplitArgs that cuts at the last "--" instead of the first
SplitArgs_LastSeparator(av) == SubSeq(av, LastIndexFrom(av, "--", Len(av)) + 1, Len(av))

\* argv[args_start:] with args_start = argv.index("--") + 1 (0-based), i.e. the
\* elements after 1-based position Index(av, "--")
SplitArgs(av) == SubSeq(av, Index(av, "--") + 1, Len(av))

(***************************************************************************)
(* parse_arguments (lines 142-177): argparse with the count option         *)
(* -v/--verbose, the int option --levels (default 2) and the positionals   *)
(* input and output, as argparse processes the tokens of Tokens.           *)
(***************************************************************************)
DefaultLevels == 2
DefaultVerbose == 0
OptionStrings == {"-v", "--verbose", "--levels"}
\* the number of times a string gives the count option: once by an option
\* string of its own, twice by the joined short flags "-vv" (the -vv of the
\* help text, line 153), 0 when the string is not the count option
VerboseCount(tok) ==
  IF tok \in {"-v", "--verbose"} THEN 1 ELSE IF tok = "-vv" THEN 2 ELSE 0

\* argparse's arg_strings_pattern: "-" for the first "--", "A" for everything
\* after it and for every non-option string, "O" for an option string
ArgPattern(a) ==
  [i \in 1..Len(a) |->
     IF \E j \in 1..(i - 1) : a[j] = "--" THEN "A"
     ELSE IF a[i] = "--" THEN "-"
     ELSE IF a[i] \in OptionStrings \/ VerboseCount(a[i]) > 0 THEN "O"
     ELSE "A"]

\* skip the "-" entries of pattern p from position i on
RECURSIVE SkipDashes(_, _)
SkipDashes(p, i) == IF i <= Len(p) /\ p[i] = "-" THEN SkipDashes(p, i + 1) ELSE i

\* match one positional, regex (-*A-*), at position i: the position after the
\* match, 0 when there is none
MatchOne(p, i) ==
  LET j == SkipDashes(p, i)
  IN  IF j <= Len(p) /\ p[j] = "A" THEN SkipDashes(p, j + 1) ELSE 0

\* match_partial: the end positions of the groups of the longest prefix of the
\* k remaining positionals that matches at position i (k <= 2)
MatchPartial(p, i, k) ==
  LET e1 == MatchOne(p, i)
      e2 == IF e1 = 0 THEN 0 ELSE MatchOne(p, e1)
  IN  IF k >= 2 /\ e1 # 0 /\ e2 # 0 THEN <<e1, e2>>
      ELSE IF k >= 1 /\ e1 # 0 THEN <<e1>>
      ELSE <<>>

\* _get_values for a positional with nargs=None: the strings a[i..e-1] with
\* the first "--" removed; one string left is the value, none left is []
PositionalValue(a, i, e) ==
  LET strs == SubSeq(a, i, e - 1)
      d    == Index(strs, "--")
      rest == IF d = 0 THEN strs
              ELSE SubSeq(strs, 1, d - 1) \o SubSeq(strs, d + 1, Len(strs))
  IN  IF Len(rest) = 0 THEN EmptyList ELSE rest[1]

\* the namespace before any argument is consumed; npos counts the positionals
\* consumed, err is set by parser.error, extras holds unrecognized strings
InitialNamespace ==
  [verbose |-> DefaultVerbose, levels |-> DefaultLevels, input |-> None,
   output |-> None, npos |-> 0, extras |-> FALSE, err |-> FALSE]

\* consume_positionals at position i: the namespace and the position reached
ConsumePositionals(a, p, i, ns) ==
  LET ends == MatchPartial(p, i, 2 - ns.npos)
      n    == Len(ends)
      v1   == IF n >= 1 THEN PositionalValue(a, i, ends[1]) ELSE None
      v2   == IF n >= 2 THEN PositionalValue(a, ends[1], ends[2]) ELSE None
      ns1  == IF n = 0 THEN ns
              ELSE IF ns.npos = 0
                THEN [ns EXCEPT !.input = v1,
                                !.output = IF n = 2 THEN v2 ELSE @,
                                !.npos = n]
                ELSE [ns EXCEPT !.output = v1, !.npos = 2]
  IN  [ns |-> ns1, at |-> IF n = 0 THEN i ELSE ends[n]]

\* consume_optional at position i (an option string)
ConsumeOptional(a, p, i, ns) ==
  IF VerboseCount(a[i]) > 0
    THEN [ns |-> [ns EXCEPT !.verbose = @ + VerboseCount(a[i])], at |-> i + 1]
    ELSE \* --levels: exactly one argument, converted by int
      IF i + 1 <= Len(p) /\ p[i + 1] = "A" /\ IntOf(a[i + 1]) >= 0
        THEN [ns |-> [ns EXCEPT !.levels = IntOf(a[i + 1])], at |-> i + 2]
        ELSE [ns |-> [ns EXCEPT !.err = TRUE], at |-> Len(a) + 1]

\* the largest and the next index of an option string
MaxOptionIndex(p) ==
  LET O == {i \in 1..Len(p) : p[i] = "O"}
  IN  IF O = {} THEN 0 ELSE CHOOSE i \in O : \A j \in O : j <= i

NextOptionIndex(p, s) == CHOOSE i \in s..Len(p) : p[i] = "O" /\ \A j \in s..(i - 1) : p[j] # "O"

\* the loop of _parse_known_args from start index s.  An intermediate result
\* is bound through a one-element set, which evaluates it exactly once.
RECURSIVE ParseLoop(_, _, _, _)
Resume(a, p, c) == CHOOSE r \in {ParseLoop(a, p, v.at, v.ns) : v \in {c}} : TRUE

ParseLoop(a, p, s, ns) ==
  IF ns.err THEN ns
  ELSE IF s <= MaxOptionIndex(p)
    THEN CHOOSE r \in
           { IF cp.at > s THEN ParseLoop(a, p, cp.at, cp.ns)
             ELSE IF p[s] # "O"
               THEN Resume(a, p, ConsumeOptional(a, p, NextOptionIndex(p, s),
                                                 [ns EXCEPT !.extras = TRUE]))
               ELSE Resume(a, p, ConsumeOptional(a, p, s, ns))
             : cp \in { IF s # NextOptionIndex(p, s)
                          THEN ConsumePositionals(a, p, s, ns)
                          ELSE [ns |-> ns, at |-> s] } } : TRUE
    ELSE CHOOSE r \in
           { [cp.ns EXCEPT !.extras = @ \/ cp.at <= Len(a)]
             : cp \in {ConsumePositionals(a, p, s, ns)} } : TRUE

\* parse_args: the namespace, with err set when argparse exits with status 2
\* (a bad --levels value, a missing positional, unrecognized arguments)
parse_arguments(a) ==
  CHOOSE r \in
    { [ns EXCEPT !.err = ns.err \/ ns.npos < 2 \/ ns.extras]
      : ns \in {ParseLoop(a, p, 1, InitialNamespace) : p \in {ArgPattern(a)}} } : TRUE

(***************************************************************************)
(* Logging (lines 86-88, 189-192).                                         *)
(***************************************************************************)
DEBUG == 10
INFO == 20
WARNING == 30
ERROR == 40

\* sorted(xs, reverse=True): insertion of each element into a descending list
RECURSIVE InsertDesc(_, _)
InsertDesc(x, s) ==
  IF s = <<>> THEN <<x>>
  ELSE IF x > Head(s) THEN <<x>> \o s
  ELSE <<Head(s)>> \o InsertDesc(x, Tail(s))

RECURSIVE SortedReverse(_)
SortedReverse(s) == IF s = <<>> THEN <<>> ELSE InsertDesc(Head(s), SortedReverse(Tail(s)))

\* LOGLEV sorted without reverse=True
LOGLEV_Ascending == <<PyNone, PyInt(DEBUG), PyInt(INFO)>>

\* line 87-88; the leading None is PyNone, a level is PyInt(level)
LOGLEV == <<PyNone>> \o [i \in 1..2 |-> PyInt(SortedReverse(<<INFO, DEBUG>>)[i])]

Min(a, b) == IF a < b THEN a ELSE b

\* line 190: LOGLEV[min(args.verbose, len(LOGLEV) - 1)] (0-based index)
LevelFor(verbose) == LOGLEV[Min(verbose, Len(LOGLEV) - 1) + 1]

\* basicConfig(level=None) leaves the root logger at WARNING
Threshold(level) == IF level = PyNone THEN WARNING ELSE level[1]

(***************************************************************************)
(* The scene of the host (bpy.data.objects, bpy.context).                  *)
(***************************************************************************)
Modes == {"OBJECT", "EDIT"}
PreMod == [name |-> "old", type |-> "SUBSURF", levels |-> PreLevel]
InitName(i) == "Obj" \o ToString(i)
FileName(i) == "Mesh" \o ToString(i)

\* the scenes a host started by the user may present to the script
InitScenes ==
  UNION {
    { [objs |-> [i \in 1..n |-> [name |-> InitName(i), mods |-> f[i].mods, sel |-> f[i].sel]],
       active |-> am[1], mode |-> am[2]] :
        f \in [1..n -> [mods : {<<>>, <<PreMod>>}, sel : BOOLEAN]],
        am \in {<<None, "OBJECT">>} \cup ({InitName(i) : i \in 1..n} \X Modes) }
    : n \in 0..MaxInitObjs }

\* the scene of a host started with --factory-startup (line 52)
FactoryScene ==
  [objs |-> << [name |-> "Cube", mods |-> <<>>, sel |-> TRUE],
               [name |-> "Light", mods |-> <<>>, sel |-> FALSE],
               [name |-> "Camera", mods |-> <<>>, sel |-> FALSE] >>,
   active |-> "Cube", mode |-> "OBJECT"]

\* a process that has no host has no scene
NoScene == [objs |-> <<>>, active |-> None, mode |-> "OBJECT"]

Names(sc) == [i \in 1..Len(sc.objs) |-> sc.objs[i].name]

RECURSIVE Without(_, _)
Without(objs, nm) ==
  IF objs = <<>> THEN <<>>
  ELSE IF Head(objs).name = nm THEN Without(Tail(objs), nm)
  ELSE <<Head(objs)>> \o Without(Tail(objs), nm)

\* bpy.data.objects.remove(obj) (line 98)
RemoveObject(sc, nm) ==
  [sc EXCEPT !.objs = Without(sc.objs, nm),
             !.active = IF sc.active = nm THEN None ELSE sc.active]

\* bpy.ops.object.mode_set(mode='OBJECT', toggle=False) (line 95)
ModeSet(sc) == [sc EXCEPT !.mode = "OBJECT"]

\* bpy.ops.import_scene.obj(filepath=file) (line 103) of a file holding k
\* objects: they are appended to the scene, selected, without modifiers
ImportObj(sc, k) ==
  [sc EXCEPT !.objs = sc.objs \o [i \in 1..k |-> [name |-> FileName(i), mods |-> <<>>, sel |-> TRUE]]]

\* bpy.ops.object.select_all(action='DESELECT') (line 131)
SelectAllDeselect(sc) ==
  [sc EXCEPT !.objs = [i \in 1..Len(sc.objs) |-> [sc.objs[i] EXCEPT !.sel = FALSE]]]

\* AddSubsurf that sets the default depth instead of the requested one
AddSubsurf_FixedLevels(sc, nm, lv) ==
  [sc EXCEPT !.objs =
     [i \in 1..Len(sc.objs) |->
        IF sc.objs[i].name = nm
          THEN [sc.objs[i] EXCEPT !.mods = Append(@, [name |-> "subsurf", type |-> "SUBSURF", levels |-> DefaultLevels])]
          ELSE sc.objs[i]]]

\* obj.modifiers.new(name="subsurf", type="SUBSURF"); modifier.levels = lv
\* (lines 135-136) on the object named nm
AddSubsurf(sc, nm, lv) ==
  [sc EXCEPT !.objs =
     [i \in 1..Len(sc.objs) |->
        IF sc.objs[i].name = nm
          THEN [sc.objs[i] EXCEPT !.mods = Append(@, [name |-> "subsurf", type |-> "SUBSURF", levels |-> lv])]
          ELSE sc.objs[i]]]

RECURSIVE KeepWhere(_, _)
KeepWhere(s, keep) ==
  IF s = <<>> THEN <<>>
  ELSE IF keep[1] THEN <<Head(s)>> \o KeepWhere(Tail(s), Tail(keep))
  ELSE KeepWhere(Tail(s), Tail(keep))

\* bpy.ops.export_scene.obj (lines 109-115): what is written to the file
ExportObj(sc, path, check_existing, use_selection, use_animation, use_mesh_modifiers) ==
  LET keep == [i \in 1..Len(sc.objs) |-> (~use_selection) \/ sc.objs[i].sel]
      objs == KeepWhere(sc.objs, keep)
  IN  [path |-> path,
       overwrite |-> ~check_existing,
       animation |-> use_animation,
       meshes |-> [i \in 1..Len(objs) |->
                     [name |-> objs[i].name,
                      applied |-> IF use_mesh_modifiers
                                    THEN [j \in 1..Len(objs[i].mods) |-> objs[i].mods[j].levels]
                                    ELSE <<>>]]]

(***************************************************************************)
(* State.                                                                  *)
(***************************************************************************)
VARIABLES
  pc,           \* the statement the process executes next
  generation,   \* 0: the process the user started, 1: the process after execvp
  hostAvail,    \* what the host probe of this process finds
  argv,         \* sys.argv of this process
  userArgv,     \* sys.argv of the process the user started
  reason,       \* execBlender's argument
  platformSys,  \* platform.system() as read by execBlender
  blender_args, \* execBlender's local blender_args
  execCalls,    \* os.execvp calls of this process
  margv,        \* main's argv after the split
  args,         \* the namespace returned by parse_arguments
  logLevel,     \* the level passed to basicConfig
  scene,        \* the host's scene
  scene0,       \* the scene when this process started the script
  sceneAtCall,  \* the scene when thething was called
  iter,         \* the names the running for-loop has still to visit
  trace,        \* the host operations and pipeline steps issued, in order
  written,      \* the files written, in order
  logged,       \* the logger and print calls, in order
  exc,          \* the uncaught exception, None when there is none
  ret,          \* thething's return value
  mainRet,      \* main's return value
  exitStatus    \* the status passed to the operating system, -1 while running

vars == <<pc, generation, hostAvail, argv, userArgv, reason, platformSys, blender_args,
          execCalls, margv, args, logLevel, scene, scene0, sceneAtCall, iter, trace, written,
          logged, exc, ret, mainRet, exitStatus>>

procVars == <<generation, hostAvail, argv, userArgv>>
execVars == <<reason, platformSys, blender_args, execCalls>>
mainVars == <<margv, args, logLevel>>
sceneVars == <<scene, scene0, sceneAtCall, iter, trace, written>>
endVars == <<exc, ret, mainRet, exitStatus>>

\* the argument vector of a host the user started directly
HostPrefix == <<blender_bin, "--background", "--python", SelfPath>>

Op(name, arg) == [op |-> name, arg |-> arg]
Log(level, msg) == [level |-> level, msg |-> msg]

Init ==
  /\ pc = "import_bpy"
  /\ generation = 0
  /\ hostAvail \in {"no_module", "no_context", "available"}
  /\ userArgv \in (IF hostAvail = "available"
                     THEN {HostPrefix \o u : u \in HostArgs}
                     ELSE {<<ProgName>> \o u : u \in UserArgs})
  /\ argv = userArgv
  /\ scene \in (IF hostAvail = "available" THEN InitScenes ELSE {NoScene})
  /\ scene0 = scene
  /\ sceneAtCall = NoScene
  /\ reason = None
  /\ platformSys = None
  /\ blender_args = <<>>
  /\ execCalls = 0
  /\ margv = <<>>
  /\ args = InitialNamespace
  /\ logLevel = PyNone
  /\ iter = <<>>
  /\ trace = <<>>
  /\ written = <<>>
  /\ logged = <<>>
  /\ exc = None
  /\ ret = PyNone
  /\ mainRet = PyNone
  /\ exitStatus = -1

(***************************************************************************)
(* Host probe (lines 74-82).                                               *)
(***************************************************************************)
\* lines 74-77: import bpy raises ImportError, execBlender is called
ImportBpyFails ==
  /\ pc = "import_bpy"
  /\ hostAvail = "no_module"
  /\ reason' = "no bpy available"
  /\ pc' = "execBlender"
  /\ UNCHANGED <<procVars, platformSys, blender_args, execCalls, mainVars, sceneVars,
                 logged, endVars>>

\* ImportBpyOk without the context check that follows it
ImportBpyOk_SkipsContextCheck ==
  /\ pc = "import_bpy"
  /\ hostAvail # "no_module"
  /\ pc' = "main"
  /\ UNCHANGED <<procVars, execVars, mainVars, sceneVars, logged, endVars>>

\* line 75: import bpy succeeds
ImportBpyOk ==
  /\ pc = "import_bpy"
  /\ hostAvail # "no_module"
  /\ pc' = "context_check"
  /\ UNCHANGED <<procVars, execVars, mainVars, sceneVars, logged, endVars>>

\* ContextNone without the call of execBlender: the script goes on to main
ContextNone_FallsThrough ==
  /\ pc = "context_check"
  /\ hostAvail = "no_context"
  /\ pc' = "main"
  /\ UNCHANGED <<procVars, execVars, mainVars, sceneVars, logged, endVars>>

\* lines 81-82: bpy.context is None, execBlender is called
ContextNone ==
  /\ pc = "context_check"
  /\ hostAvail = "no_context"
  /\ reason' = "no context available"
  /\ pc' = "execBlender"
  /\ UNCHANGED <<procVars, platformSys, blender_args, execCalls, mainVars, sceneVars,
                 logged, endVars>>

\* line 81 is false; lines 86-199 define the module and call main(sys.argv)
ContextOk ==
  /\ pc = "context_check"
  /\ hostAvail = "available"
  /\ pc' = "main"
  /\ UNCHANGED <<procVars, execVars, mainVars, sceneVars, logged, endVars>>

(***************************************************************************)
(* execBlender (lines 36-66).                                              *)
(***************************************************************************)
\* lines 37-56: the two prints and the host invocation
ExecBlender ==
  /\ pc = "execBlender"
  /\ \E sys \in Platforms :
       /\ platformSys' = sys
       /\ blender_args' = BlenderArgs(sys, argv)
  /\ logged' = logged \o <<Log("print", "Not running under blender"),
                           Log("print", "Re-execing myself under blender")>>
  /\ pc' = "execvp"
  /\ UNCHANGED <<procVars, reason, execCalls, mainVars, sceneVars, endVars>>

\* line 63: os.execvp succeeds; the process image is replaced by Blender, which
\* starts with its factory scene and runs this script with the host invocation
\* as sys.argv
ExecvpReplaces ==
  /\ pc = "execvp"
  /\ generation' = 1
  /\ hostAvail' = "available"
  /\ argv' = blender_args
  /\ scene' = FactoryScene
  /\ scene0' = FactoryScene
  /\ execCalls' = 0
  /\ pc' = "import_bpy"
  /\ UNCHANGED <<userArgv, reason, platformSys, blender_args, mainVars, sceneAtCall,
                 iter, trace, written, logged, endVars>>

\* ExecvpFails with sys.exit() in place of sys.exit(1)
ExecvpFails_ExitZero ==
  /\ pc = "execvp"
  /\ execCalls' = execCalls + 1
  /\ logged' = Append(logged, Log("print", "ERROR: Couldn't exec blender"))
  /\ exitStatus' = 0
  /\ pc' = "exited"
  /\ UNCHANGED <<procVars, reason, platformSys, blender_args, mainVars, sceneVars,
                 exc, ret, mainRet>>

\* lines 63-66: os.execvp raises OSError
ExecvpFails ==
  /\ pc = "execvp"
  /\ execCalls' = execCalls + 1
  /\ logged' = Append(logged, Log("print", "ERROR: Couldn't exec blender"))
  /\ exitStatus' = 1
  /\ pc' = "exited"
  /\ UNCHANGED <<procVars, reason, platformSys, blender_args, mainVars, sceneVars,
                 exc, ret, mainRet>>

(***************************************************************************)
(* main (lines 180-196) and the exit (line 200).                           *)
(***************************************************************************)
\* lines 183-184
MainSplit ==
  /\ pc = "main"
  /\ Index(argv, "--") # 0
  /\ margv' = SplitArgs(argv)
  /\ pc' = "parse"
  /\ UNCHANGED <<procVars, execVars, args, logLevel, sceneVars, logged, endVars>>

\* MainNoSeparator with a search that yields -1 instead of raising, so that the
\* slice is the whole vector
MainNoSeparator_WholeArgv ==
  /\ pc = "main"
  /\ Index(argv, "--") = 0
  /\ margv' = argv
  /\ pc' = "parse"
  /\ UNCHANGED <<procVars, execVars, args, logLevel, sceneVars, logged, endVars>>

\* line 183: argv.index("--") raises ValueError, which nothing catches
MainNoSeparator ==
  /\ pc = "main"
  /\ Index(argv, "--") = 0
  /\ exc' = "ValueError"
  /\ pc' = "raised"
  /\ UNCHANGED <<procVars, execVars, mainVars, sceneVars, logged, ret, mainRet, exitStatus>>

\* line 186
ParseOk ==
  /\ pc = "parse"
  /\ ~parse_arguments(margv).err
  /\ args' = parse_arguments(margv)
  /\ pc' = "configure"
  /\ UNCHANGED <<procVars, execVars, margv, logLevel, sceneVars, logged, endVars>>

\* line 186 (176): argparse reports the error and calls sys.exit(2)
ParseError ==
  /\ pc = "parse"
  /\ parse_arguments(margv).err
  /\ logged' = Append(logged, Log("print", "usage error"))
  /\ exitStatus' = 2
  /\ pc' = "exited"
  /\ UNCHANGED <<procVars, execVars, mainVars, sceneVars, exc, ret, mainRet>>

\* lines 189-195: basicConfig, the debug message and the call of thething
Configure ==
  /\ pc = "configure"
  /\ logLevel' = LevelFor(args.verbose)
  /\ logged' = Append(logged, Log(DEBUG, "got stuff parsed, gonna do the thing!"))
  /\ sceneAtCall' = scene
  /\ pc' = "thething"
  /\ UNCHANGED <<procVars, execVars, margv, args, scene, scene0, iter, trace, written, endVars>>

\* line 196 and the return of main (no return statement: None)
DoneReport ==
  /\ pc = "done_report"
  /\ logged' = Append(logged, Log(INFO, "DONE!"))
  /\ mainRet' = PyNone
  /\ pc' = "sys_exit"
  /\ UNCHANGED <<procVars, execVars, mainVars, sceneVars, exc, ret, exitStatus>>

\* sys.exit(v): None is status 0, an int is that status
ExitCode(v) == IF v = PyNone THEN 0 ELSE v[1]

\* line 200
SysExit ==
  /\ pc = "sys_exit"
  /\ exitStatus' = ExitCode(mainRet)
  /\ pc' = "exited"
  /\ UNCHANGED <<procVars, execVars, mainVars, sceneVars, logged, exc, ret, mainRet>>

\* os.path.isfile(path) (line 123): the path names a file that was there when
\* the process started or one that an export of this session has written
IsFile(path) ==
  \/ path \in ExistingFiles
  \/ \E i \in 1..Len(written) : written[i].path = path

(***************************************************************************)
(* thething (lines 120-138) with sceneprep, load_obj and save_obj.         *)
(***************************************************************************)
\* InputNotFound with sceneprep() called before the check
InputNotFound_ResetFirst ==
  /\ pc = "thething"
  /\ ~IsFile(args.input)
  /\ scene' = [objs |-> <<>>, active |-> None,
               mode |-> IF scene.active # None THEN "OBJECT" ELSE scene.mode]
  /\ trace' = trace \o <<Op("sceneprep", "")>>
                    \o (IF scene.active # None THEN <<Op("mode_set", "OBJECT")>> ELSE <<>>)
                    \o [i \in 1..Len(scene.objs) |-> Op("remove", scene.objs[i].name)]
  /\ logged' = logged \o <<Log(DEBUG, "doing the thing"),
                           Log(ERROR, "input file does not exist or isn't a file")>>
  /\ ret' = PyInt(1)
  /\ pc' = "done_report"
  /\ UNCHANGED <<procVars, execVars, mainVars, scene0, sceneAtCall, iter, written, exc,
                 mainRet, exitStatus>>

\* lines 121-125: the input is not an existing regular file
InputNotFound ==
  /\ pc = "thething"
  /\ ~IsFile(args.input)
  /\ logged' = logged \o <<Log(DEBUG, "doing the thing"),
                           Log(ERROR, "input file does not exist or isn't a file")>>
  /\ ret' = PyInt(1)
  /\ pc' = "done_report"
  /\ UNCHANGED <<procVars, execVars, mainVars, sceneVars, exc, mainRet, exitStatus>>

\* lines 121-123: the input is an existing regular file
InputFound ==
  /\ pc = "thething"
  /\ IsFile(args.input)
  /\ logged' = Append(logged, Log(DEBUG, "doing the thing"))
  /\ pc' = "sceneprep"
  /\ UNCHANGED <<procVars, execVars, mainVars, sceneVars, endVars>>

\* Sceneprep whose removal loop is under the test for an active object
Sceneprep_LoopUnderActive ==
  /\ pc = "sceneprep"
  /\ scene' = IF scene.active # None THEN ModeSet(scene) ELSE scene
  /\ trace' = trace \o <<Op("sceneprep", "")>>
                    \o (IF scene.active # None THEN <<Op("mode_set", "OBJECT")>> ELSE <<>>)
  /\ iter' = IF scene.active # None THEN Names(scene) ELSE <<>>
  /\ pc' = IF scene.active = None \/ Names(scene) = <<>> THEN "load" ELSE "remove"
  /\ UNCHANGED <<procVars, execVars, mainVars, scene0, sceneAtCall, written, logged, endVars>>

\* Sceneprep without the switch to object mode
Sceneprep_NoModeSet ==
  /\ pc = "sceneprep"
  /\ scene' = scene
  /\ trace' = trace \o <<Op("sceneprep", "")>>
  /\ iter' = Names(scene)
  /\ pc' = IF Names(scene) = <<>> THEN "load" ELSE "remove"
  /\ UNCHANGED <<procVars, execVars, mainVars, scene0, sceneAtCall, written, logged, endVars>>

\* lines 127, 94-97: sceneprep is called, switches to object mode when there is
\* an active object, and starts to iterate over bpy.data.objects
Sceneprep ==
  /\ pc = "sceneprep"
  /\ scene' = IF scene.active # None THEN ModeSet(scene) ELSE scene
  /\ trace' = trace \o <<Op("sceneprep", "")>>
                    \o (IF scene.active # None THEN <<Op("mode_set", "OBJECT")>> ELSE <<>>)
  /\ iter' = Names(scene)
  /\ pc' = IF Names(scene) = <<>> THEN "load" ELSE "remove"
  /\ UNCHANGED <<procVars, execVars, mainVars, scene0, sceneAtCall, written, logged, endVars>>

\* SceneprepRemove that leaves the loop after the first object
SceneprepRemove_OnlyFirst ==
  /\ pc = "remove"
  /\ scene' = RemoveObject(scene, Head(iter))
  /\ trace' = Append(trace, Op("remove", Head(iter)))
  /\ iter' = <<>>
  /\ pc' = "load"
  /\ UNCHANGED <<procVars, execVars, mainVars, scene0, sceneAtCall, written, logged, endVars>>

\* lines 97-98: one iteration; the iterator has advanced before the body runs,
\* so removing the current object does not disturb it
SceneprepRemove ==
  /\ pc = "remove"
  /\ scene' = RemoveObject(scene, Head(iter))
  /\ trace' = Append(trace, Op("remove", Head(iter)))
  /\ iter' = Tail(iter)
  /\ pc' = IF Tail(iter) = <<>> THEN "load" ELSE "remove"
  /\ UNCHANGED <<procVars, execVars, mainVars, scene0, sceneAtCall, written, logged, endVars>>

\* lines 128, 101-104: the file holds k objects
LoadObj ==
  /\ pc = "load"
  /\ \E k \in 0..MaxFileObjs : scene' = ImportObj(scene, k)
  /\ trace' = Append(trace, Op("load_obj", args.input))
  /\ logged' = logged \o <<Log(DEBUG, "Loading obj file"),
                           Log(DEBUG, "successfully loaded obj file")>>
  /\ pc' = "deselect"
  /\ UNCHANGED <<procVars, execVars, mainVars, scene0, sceneAtCall, iter, written, endVars>>

\* line 131
Deselect ==
  /\ pc = "deselect"
  /\ scene' = SelectAllDeselect(scene)
  /\ trace' = Append(trace, Op("select_all", "DESELECT"))
  /\ pc' = "subsurf"
  /\ UNCHANGED <<procVars, execVars, mainVars, scene0, sceneAtCall, iter, written, logged, endVars>>

\* line 134: the loop starts to iterate over bpy.data.objects
SubsurfBegin ==
  /\ pc = "subsurf"
  /\ trace' = Append(trace, Op("subsurf", ""))
  /\ iter' = Names(scene)
  /\ pc' = IF Names(scene) = <<>> THEN "save" ELSE "subsurf_obj"
  /\ UNCHANGED <<procVars, execVars, mainVars, scene, scene0, sceneAtCall, written, logged, endVars>>

\* SubsurfObj that leaves the loop after the first object
SubsurfObj_OnlyFirst ==
  /\ pc = "subsurf_obj"
  /\ scene' = AddSubsurf(scene, Head(iter), args.levels)
  /\ trace' = Append(trace, Op("modifier_new", Head(iter)))
  /\ iter' = <<>>
  /\ pc' = "save"
  /\ UNCHANGED <<procVars, execVars, mainVars, scene0, sceneAtCall, written, logged, endVars>>

\* lines 135-136: one iteration
SubsurfObj ==
  /\ pc = "subsurf_obj"
  /\ scene' = AddSubsurf(scene, Head(iter), args.levels)
  /\ trace' = Append(trace, Op("modifier_new", Head(iter)))
  /\ iter' = Tail(iter)
  /\ pc' = IF Tail(iter) = <<>> THEN "save" ELSE "subsurf_obj"
  /\ UNCHANGED <<procVars, execVars, mainVars, scene0, sceneAtCall, written, logged, endVars>>

\* SaveObj with use_selection=True
SaveObj_SelectionOnly ==
  /\ pc = "save"
  /\ args.output # EmptyList
  /\ written' = Append(written, ExportObj(scene, args.output, FALSE, TRUE, FALSE, TRUE))
  /\ trace' = Append(trace, Op("save_obj", args.output))
  /\ logged' = logged \o <<Log(DEBUG, "saving obj file"),
                           Log(DEBUG, "successfully saved obj file")>>
  /\ ret' = PyNone
  /\ pc' = "done_report"
  /\ UNCHANGED <<procVars, execVars, mainVars, scene, scene0, sceneAtCall, iter, exc, mainRet,
                 exitStatus>>

\* SaveObj that applies the modifiers to the objects of the scene (and so
\* removes them from the modifier stacks) before it exports
SaveObj_BakesModifiers ==
  /\ pc = "save"
  /\ args.output # EmptyList
  /\ written' = Append(written, ExportObj(scene, args.output, FALSE, FALSE, FALSE, TRUE))
  /\ scene' = [scene EXCEPT !.objs = [i \in 1..Len(scene.objs) |->
                                        [scene.objs[i] EXCEPT !.mods = <<>>]]]
  /\ trace' = Append(trace, Op("save_obj", args.output))
  /\ logged' = logged \o <<Log(DEBUG, "saving obj file"),
                           Log(DEBUG, "successfully saved obj file")>>
  /\ ret' = PyNone
  /\ pc' = "done_report"
  /\ UNCHANGED <<procVars, execVars, mainVars, scene0, sceneAtCall, iter, exc, mainRet,
                 exitStatus>>

\* lines 138, 107-116 and the return of thething (no return statement: None)
SaveObj ==
  /\ pc = "save"
  /\ args.output # EmptyList
  /\ written' = Append(written, ExportObj(scene, args.output, FALSE, FALSE, FALSE, TRUE))
  /\ trace' = Append(trace, Op("save_obj", args.output))
  /\ logged' = logged \o <<Log(DEBUG, "saving obj file"),
                           Log(DEBUG, "successfully saved obj file")>>
  /\ ret' = PyNone
  /\ pc' = "done_report"
  /\ UNCHANGED <<procVars, execVars, mainVars, scene, scene0, sceneAtCall, iter, exc, mainRet,
                 exitStatus>>

\* lines 138, 109: the output is the list argparse stored for a lone "--";
\* the operator rejects a filepath that is no string with a TypeError
SaveObjBadPath ==
  /\ pc = "save"
  /\ args.output = EmptyList
  /\ trace' = Append(trace, Op("failed", "save_obj"))
  /\ logged' = Append(logged, Log(DEBUG, "saving obj file"))
  /\ exc' = "TypeError"
  /\ pc' = "raised"
  /\ UNCHANGED <<procVars, execVars, mainVars, scene, scene0, sceneAtCall, iter, written, ret,
                 mainRet, exitStatus>>

\* the host operation the statement at pc calls, None when it calls none
HostOpAt(p, sc) ==
  CASE p = "sceneprep" /\ sc.active # None -> "mode_set"
    [] p = "remove" -> "remove"
    [] p = "load" -> "load_obj"
    [] p = "deselect" -> "select_all"
    [] p = "subsurf_obj" -> "modifier_new"
    [] p = "save" -> "save_obj"
    [] OTHER -> None

\* a host operation raises; nothing in the script catches it (lines 127-138,
\* 195, 200).  load_obj and save_obj have logged their first debug message
\* (lines 102, 108) before they call the host.
HostOpFails ==
  /\ HostOpAt(pc, scene) # None
  /\ trace' = trace \o (IF pc = "sceneprep" THEN <<Op("sceneprep", "")>> ELSE <<>>)
                    \o <<Op("failed", HostOpAt(pc, scene))>>
  /\ logged' = logged \o (IF pc = "load" THEN <<Log(DEBUG, "Loading obj file")>>
                          ELSE IF pc = "save" THEN <<Log(DEBUG, "saving obj file")>>
                          ELSE <<>>)
  /\ exc' = "RuntimeError"
  /\ pc' = "raised"
  /\ UNCHANGED <<procVars, execVars, mainVars, scene, scene0, sceneAtCall, iter, written,
                 ret, mainRet, exitStatus>>

\* the status the host exits with after the script it ran with --python raised:
\* the code given with --python-exit-code among the host's own arguments (those
\* before "--"), 0 when that option is absent.  execBlender (lines 49-56) does
\* not pass the option.
PythonExitCode(av) ==
  LET end == IF Index(av, "--") = 0 THEN Len(av) ELSE Index(av, "--") - 1
      at  == IndexFrom(av, "--python-exit-code", 1)
  IN  IF at = 0 \/ at >= end THEN 0 ELSE IntOf(av[at + 1])

\* the exception reaches the host, which prints the traceback, has nothing
\* left to do in background mode and exits (lines 195, 200: no handler)
HostEnds ==
  /\ pc = "raised"
  /\ exitStatus' = PythonExitCode(argv)
  /\ pc' = "host_ended"
  /\ UNCHANGED <<procVars, execVars, mainVars, sceneVars, logged, exc, ret, mainRet>>

Next ==
  \/ ImportBpyFails
  \/ ImportBpyOk
  \/ ContextNone
  \/ ContextOk
  \/ ExecBlender
  \/ ExecvpReplaces
  \/ ExecvpFails
  \/ MainSplit
  \/ MainNoSeparator
  \/ ParseOk
  \/ ParseError
  \/ Configure
  \/ InputNotFound
  \/ InputFound
  \/ Sceneprep
  \/ SceneprepRemove
  \/ LoadObj
  \/ Deselect
  \/ SubsurfBegin
  \/ SubsurfObj
  \/ SaveObj
  \/ SaveObjBadPath
  \/ HostOpFails
  \/ HostEnds
  \/ DoneReport
  \/ SysExit

Spec == Init /\ [][Next]_vars

(***************************************************************************)
(* Two successive calls of thething (lines 120-138) on the scene of one    *)
(* host session: the second call starts on the scene the first one left.   *)
(***************************************************************************)
\* the arguments of a call
TwoRunsArgs ==
  { <<"a.obj", "b.obj">>, <<"a.obj", "a.obj">>, <<"--levels", "3", "a.obj", "b.obj">>,
    <<"b.obj", "a.obj">> }

InitTwoRuns ==
  /\ pc = "thething"
  /\ generation = 0
  /\ hostAvail = "available"
  /\ margv \in TwoRunsArgs
  /\ userArgv = HostPrefix \o <<"--">> \o margv
  /\ argv = userArgv
  /\ args = parse_arguments(margv)
  /\ logLevel = LevelFor(args.verbose)
  /\ scene \in InitScenes \cup {FactoryScene}
  /\ scene0 = scene
  /\ sceneAtCall = scene
  /\ reason = None
  /\ platformSys = None
  /\ blender_args = <<>>
  /\ execCalls = 0
  /\ iter = <<>>
  /\ trace = <<>>
  /\ written = <<>>
  /\ logged = <<Log(DEBUG, "got stuff parsed, gonna do the thing!")>>
  /\ exc = None
  /\ ret = PyNone
  /\ mainRet = PyNone
  /\ exitStatus = -1

\* thething is called a second time, with arguments of its own, after a first
\* call that has saved its output
SecondCall ==
  /\ pc = "done_report"
  /\ ret = PyNone
  /\ Len(written) = 1
  /\ \E u \in TwoRunsArgs :
       /\ margv' = u
       /\ args' = parse_arguments(u)
  /\ sceneAtCall' = scene
  /\ pc' = "thething"
  /\ UNCHANGED <<procVars, execVars, logLevel, scene, scene0, iter, trace, written, logged,
                 endVars>>

NextTwoRuns ==
  \/ InputNotFound
  \/ InputFound
  \/ Sceneprep
  \/ SceneprepRemove
  \/ LoadObj
  \/ Deselect
  \/ SubsurfBegin
  \/ SubsurfObj
  \/ SaveObj
  \/ HostOpFails
  \/ SecondCall

SpecTwoRuns == InitTwoRuns /\ [][NextTwoRuns]_vars

(***************************************************************************)
(* Properties.                                                             *)
(***************************************************************************)
\* parse_arguments has returned and thething has returned to main
AfterThething == args.npos = 2 /\ pc \in {"done_report", "sys_exit", "exited"}

\* the trace without the host calls made inside sceneprep and the subsurf loop
RECURSIVE Steps(_)
Steps(t) ==
  IF t = <<>> THEN <<>>
  ELSE IF Head(t).op \in {"mode_set", "remove", "modifier_new"} THEN Steps(Tail(t))
  ELSE <<Head(t)>> \o Steps(Tail(t))

IsPrefix(s, t) == Len(s) <= Len(t) /\ SubSeq(t, 1, Len(s)) = s

\* the pipeline steps of a run that succeeds
PipelineSteps(a) ==
  <<Op("sceneprep", ""), Op("load_obj", a.input), Op("select_all", "DESELECT"),
    Op("subsurf", ""), Op("save_obj", a.output)>>

NoPipelineEffect ==
  /\ margv = <<>>
  /\ args = InitialNamespace
  /\ trace = <<>>
  /\ written = <<>>
  /\ scene = scene0

\* C1: inside the host, when the input path names no existing regular file, the
\* process ends with exit status 1: the value thething returned is the value
\* main returns and sys.exit receives.
C1_MissingInputExitsWithOne ==
  (pc = "exited" /\ args.npos = 2 /\ args.input \notin ExistingFiles)
    => (ret = PyInt(1) /\ mainRet = ret /\ exitStatus = 1)

\* C2: a call of thething whose input is no existing regular file returns 1,
\* leaves the objects, their modifiers and the selection of the scene as they
\* were at the call, issues no load, deselect, transform or save, and writes
\* no file.
C2_MissingInputLeavesSceneAlone ==
  (AfterThething /\ args.input \notin ExistingFiles)
    => /\ ret = PyInt(1)
       /\ scene = sceneAtCall
       /\ trace = <<>>
       /\ written = <<>>

C2_Witness ==
  /\ pc = "done_report"
  /\ args.input \notin ExistingFiles
  /\ ret = PyInt(1)
  /\ \E i \in 1..Len(scene.objs) : scene.objs[i].sel /\ scene.objs[i].mods # <<>>

\* C3: a process whose host probe does not find the host calls execBlender
\* before anything else, never comes back from that call, and never splits or
\* parses arguments or touches a scene; it is replaced or it exits.
C3_NoHostNoPipeline ==
  hostAvail # "available"
    => /\ pc \in {"import_bpy", "context_check", "execBlender", "execvp", "exited"}
       /\ (hostAvail = "no_module" => pc # "context_check")
       /\ (reason # None => pc \in {"execBlender", "execvp", "exited"})
       /\ (pc \in {"execBlender", "execvp", "exited"} => reason # None)
       /\ NoPipelineEffect
       /\ scene = NoScene
       /\ exc = None

C3_Witness ==
  /\ hostAvail = "no_context"
  /\ pc = "execvp"
  /\ reason = "no context available"

\* C4: the host invocation is blender, --background, --factory-startup,
\* --python, the script path (quoted only on Windows), "--", and then the
\* elements of argv[1:] in their order, nothing else.
C4_HostInvocation ==
  pc = "execvp"
    => /\ Len(blender_args) = 6 + (Len(argv) - 1)
       /\ SubSeq(blender_args, 1, 4) = <<"blender", "--background", "--factory-startup", "--python">>
       /\ blender_args[5] = (IF platformSys = "Windows"
                               THEN "\"/opt/tools/blender-example-cli-cmd.py\""
                               ELSE "/opt/tools/blender-example-cli-cmd.py")
       /\ blender_args[6] = "--"
       /\ \A i \in 2..Len(argv) : blender_args[5 + i] = argv[i]
       /\ argv = userArgv

C4_Witness ==
  /\ pc = "execvp"
  /\ platformSys = "Windows"
  /\ Len(argv) >= 4
  /\ argv[2] = "--"
  /\ argv[3] = "-v"

\* C5: for an argument vector that contains "--", the splitter returns the
\* elements after the first "--", in order and unchanged; a later "--" is an
\* ordinary element of the result.
C5_SplitAfterFirstSeparator ==
  pc = "parse"
    => \E k \in 1..Len(argv) :
         /\ argv[k] = "--"
         /\ \A j \in 1..(k - 1) : argv[j] # "--"
         /\ Len(margv) = Len(argv) - k
         /\ \A i \in 1..Len(margv) : margv[i] = argv[k + i]

C5_Witness ==
  /\ pc = "parse"
  /\ Len(margv) >= 2
  /\ margv[2] = "--"

\* C6: without a "--" in the host's argument vector the splitter raises; the
\* arguments are not parsed, no pipeline step runs and the scene stays as it
\* was.
C6_NoSeparatorIsADefect ==
  (hostAvail = "available" /\ Index(argv, "--") = 0
     /\ pc \notin {"import_bpy", "context_check", "main"})
    => /\ pc \in {"raised", "host_ended"}
       /\ exc = "ValueError"
       /\ pc = "raised" => exitStatus = -1
       /\ NoPipelineEffect

C6_Witness ==
  /\ pc = "raised"
  /\ exc = "ValueError"
  /\ scene.objs # <<>>
  /\ Len(argv) > Len(HostPrefix)

\* C7: when os.execvp fails the process reports the error and exits with
\* status 1; it has called execvp once and has run no host call and no
\* pipeline step.
C7_ExecFailureExitsWithOne ==
  /\ execCalls <= 1
  /\ (pc = "exited" /\ hostAvail # "available")
       => /\ exitStatus = 1
          /\ execCalls = 1
          /\ logged # <<>>
          /\ logged[Len(logged)] = Log("print", "ERROR: Couldn't exec blender")
          /\ NoPipelineEffect
          /\ scene = NoScene
  /\ (execCalls = 1 => pc = "exited")

C7_Witness ==
  /\ pc = "exited"
  /\ hostAvail = "no_module"
  /\ execCalls = 1
  /\ exitStatus = 1

\* thething has evaluated its input-file check
CheckEvaluated ==
  args.npos = 2 /\ pc \notin {"import_bpy", "context_check", "main", "parse", "configure", "thething"}

\* C8 as stated: sceneprep is step 1 and the input-file check step 2, so the
\* scene has been emptied by sceneprep when the check has been evaluated,
\* whether or not the input file exists.
C8_ResetBeforeCheck ==
  CheckEvaluated
    => /\ trace # <<>>
       /\ trace[1] = Op("sceneprep", "")
       /\ (pc \in {"sceneprep", "done_report"} => scene.objs = <<>>)

\* C8 amended: the input-file check is step 1 and sceneprep step 2.  sceneprep
\* runs only after the check has found the input file, and it has then emptied
\* the scene when load is issued; when the file is missing sceneprep does not
\* run and the scene is not emptied.
C8_CheckBeforeReset ==
  /\ trace # <<>> => (CheckEvaluated /\ args.input \in ExistingFiles
                        /\ trace[1] = Op("sceneprep", ""))
  /\ pc = "sceneprep" => (trace = <<>> /\ scene = sceneAtCall)
  /\ pc = "load" => (scene.objs = <<>>
                       /\ \A i \in 1..Len(sceneAtCall.objs) :
                            \E j \in 1..Len(trace) : trace[j] = Op("remove", sceneAtCall.objs[i].name))
  /\ (AfterThething /\ args.input \notin ExistingFiles)
       => (scene = sceneAtCall /\ \A j \in 1..Len(trace) : trace[j].op # "sceneprep")

C8_Witness ==
  /\ pc = "load"
  /\ Len(sceneAtCall.objs) >= 2
  /\ scene.objs = <<>>
  /\ args.input \in ExistingFiles

\* C9: when the input file exists and no host operation fails, thething issues
\* sceneprep, load_obj(input), select_all(DESELECT), the subsurf loop and
\* save_obj(output) in this order, each once, and every object present after
\* the load has received its modifier before save_obj is issued.
C9_PipelineOrder ==
  /\ (args.npos = 2 /\ exc = None) => IsPrefix(Steps(trace), PipelineSteps(args))
  /\ (AfterThething /\ args.input \in ExistingFiles)
       => /\ exc = None /\ ret = PyNone
          /\ Steps(trace) = PipelineSteps(args)
          /\ trace[Len(trace)] = Op("save_obj", args.output)
          /\ \A i \in 1..Len(scene.objs) :
               \E j \in 1..(Len(trace) - 1) : trace[j] = Op("modifier_new", scene.objs[i].name)
  /\ pc = "save" => \A i \in 1..Len(scene.objs) : scene.objs[i].mods # <<>>
  /\ pc \in {"subsurf_obj", "save"}
       => \A i \in 1..Len(scene.objs) :
            \/ \E j \in 1..Len(iter) : iter[j] = scene.objs[i].name
            \/ \E j \in 1..Len(trace) : trace[j] = Op("modifier_new", scene.objs[i].name)

C9_Witness ==
  /\ pc = "done_report"
  /\ ret = PyNone
  /\ args.input \in ExistingFiles
  /\ Len(scene.objs) >= 2
  /\ Len(written) = 1
  /\ args.input # args.output

\* the option --levels is given in the arguments a (before any "--")
LevelsGiven(a) == \E i \in 1..Len(a) : a[i] = "--levels" /\ \A j \in 1..i : a[j] # "--"

\* C10: when save_obj is issued, every object of the scene carries exactly one
\* modifier, the subsurf modifier this run added, and its depth is the
\* --levels value, 2 when the option is not given.
C10_OneModifierOfRequestedDepth ==
  pc = "save"
    => /\ \A i \in 1..Len(scene.objs) :
            /\ Len(scene.objs[i].mods) = 1
            /\ scene.objs[i].mods[1].name = "subsurf"
            /\ scene.objs[i].mods[1].type = "SUBSURF"
            /\ scene.objs[i].mods[1].levels = args.levels
       /\ (LevelsGiven(margv) => args.levels = 3)
       /\ (~LevelsGiven(margv) => args.levels = 2)

C10_Witness ==
  /\ pc = "save"
  /\ LevelsGiven(margv)
  /\ Len(scene.objs) >= 2
  /\ \A i \in 1..Len(scene.objs) : scene.objs[i].mods[1].levels = 3

\* thething has returned from a run in which save_obj was issued
RunSucceeded == AfterThething /\ args.input \in ExistingFiles

\* C12: save_obj exports the whole scene whatever the selection: no object is
\* selected when it is issued, and the file written to the output path holds
\* every object of the scene with the depth of its modifier applied, with
\* overwriting enabled and without animation.
C12_SaveExportsWholeScene ==
  /\ pc = "save" => \A i \in 1..Len(scene.objs) : ~scene.objs[i].sel
  /\ RunSucceeded
       => /\ Len(written) = 1
          /\ written[1].path = args.output
          /\ written[1].overwrite
          /\ ~written[1].animation
          /\ Len(written[1].meshes) = Len(scene.objs)
          /\ \A i \in 1..Len(scene.objs) :
               /\ written[1].meshes[i].name = scene.objs[i].name
               /\ written[1].meshes[i].applied = <<args.levels>>
               /\ ~scene.objs[i].sel

C12_Witness ==
  /\ RunSucceeded
  /\ Len(written[1].meshes) >= 2
  /\ args.output \in ExistingFiles
  /\ \A i \in 1..Len(scene.objs) : ~scene.objs[i].sel

\* C13: save_obj leaves the scene as it is: after a successful run the scene
\* holds the loaded objects, each with its modifier still attached, and nothing
\* is cleaned up or reset after the save.
C13_SaveLeavesSceneAlone ==
  RunSucceeded
    => /\ trace[Len(trace)] = Op("save_obj", args.output)
       /\ Len(scene.objs) = Cardinality({j \in 1..Len(trace) : trace[j].op = "modifier_new"})
       /\ \A i \in 1..Len(scene.objs) :
            /\ \E j \in 1..Len(trace) : trace[j] = Op("modifier_new", scene.objs[i].name)
            /\ scene.objs[i].mods =
                 <<[name |-> "subsurf", type |-> "SUBSURF", levels |-> args.levels]>>

C13_Witness ==
  /\ pc = "exited"
  /\ RunSucceeded
  /\ Len(scene.objs) >= 2
  /\ args.levels = 3

\* C14: the probe finds the host exactly when bpy can be imported and
\* bpy.context is not None.  Without the module execBlender is called with
\* "no bpy available" and the context is never looked at; with the module but
\* without a context it is called with "no context available"; with both it
\* is not called.
C14_ProbeClassification ==
  /\ (pc \in {"execBlender", "execvp"} \/ execCalls > 0)
       => /\ generation = 0
          /\ hostAvail # "available"
          /\ reason = (IF hostAvail = "no_module" THEN "no bpy available"
                       ELSE "no context available")
  /\ hostAvail = "no_module" => pc # "context_check"
  /\ (generation = 0 /\ hostAvail = "available")
       => (reason = None /\ blender_args = <<>> /\ execCalls = 0)
  /\ (generation = 0 /\ pc \notin {"import_bpy", "context_check", "execBlender", "execvp"}
        /\ execCalls = 0)
       => hostAvail = "available"

C14_Witness ==
  /\ hostAvail = "no_module"
  /\ pc = "execBlender"
  /\ reason = "no bpy available"

\* C15: the splitter applied to the host invocation that execBlender built
\* yields argv[1:] of the process the user started, also when the user's
\* arguments contain "--".
C15_RoundTrip ==
  (generation = 1 /\ pc \notin {"import_bpy", "context_check", "main"})
    => /\ exc # "ValueError"
       /\ margv = SubSeq(userArgv, 2, Len(userArgv))

C15_Witness ==
  /\ generation = 1
  /\ pc = "parse"
  /\ Len(margv) >= 2
  /\ margv[1] = "--"
  /\ platformSys = "Windows"

\* the logger emits the completion report: main has called LOGGER.info with it
\* and the configured level lets INFO through
DoneEmitted ==
  \E i \in 1..Len(logged) :
    logged[i].msg = "DONE!" /\ logged[i].level >= Threshold(logLevel)

\* C17: the completion report is emitted only when thething succeeded, after
\* save_obj for the output path; never when the input-file check failed.
C17_DoneOnlyAfterSave ==
  DoneEmitted
    => /\ ret = PyNone
       /\ args.input \in ExistingFiles
       /\ \E j \in 1..Len(trace) : trace[j] = Op("save_obj", args.output)

\* C18: sceneprep switches to object mode, before it removes anything, exactly
\* when there is an active object; no object is removed before that switch;
\* and the scene holds no object when sceneprep is done.
C18_ResetModeThenEmpty ==
  (trace # <<>> /\ trace[Len(trace)].op # "failed")
    => /\ trace[1] = Op("sceneprep", "")
       /\ (sceneAtCall.active # None)
            <=> (Len(trace) >= 2 /\ trace[2] = Op("mode_set", "OBJECT"))
       /\ \A j \in 1..Len(trace) : trace[j].op = "mode_set" => j = 2
       /\ sceneAtCall.active # None => scene.mode = "OBJECT"
       /\ sceneAtCall.active = None => scene.mode = sceneAtCall.mode
       /\ pc = "load" => scene.objs = <<>> /\ scene.active = None

C18_Witness ==
  /\ pc = "load"
  /\ sceneAtCall.active # None
  /\ sceneAtCall.mode = "EDIT"
  /\ scene.mode = "OBJECT"
  /\ scene.objs = <<>>

\* main has configured logging (line 189-192) and logged its debug message
Configured ==
  \E i \in 1..Len(logged) : logged[i].msg = "got stuff parsed, gonna do the thing!"

\* C19: the configured level is None (the logger stays at WARNING) for a
\* verbosity count of 0, INFO for 1 and DEBUG for every count of 2 or more,
\* and the index into LOGLEV is within the table for every count.
C19_VerbosityToLevel ==
  Configured
    => /\ args.verbose >= 0
       /\ Min(args.verbose, Len(LOGLEV) - 1) + 1 \in DOMAIN LOGLEV
       /\ args.verbose = 0 => (logLevel = PyNone /\ Threshold(logLevel) = WARNING)
       /\ args.verbose = 1 => (logLevel = PyInt(INFO) /\ Threshold(logLevel) = INFO)
       /\ args.verbose >= 2 => (logLevel = PyInt(DEBUG) /\ Threshold(logLevel) = DEBUG)

C19_Witness ==
  /\ Configured
  /\ args.verbose >= 3
  /\ logLevel = PyInt(DEBUG)

\* a host operation of load, transform or save has raised
StepFailed ==
  \E j \in 1..Len(trace) :
    /\ trace[j].op = "failed"
    /\ trace[j].arg \in {"load_obj", "select_all", "modifier_new", "save_obj"}

\* no step follows the failing one, nothing is saved and completion is not
\* reported
EndsAtFailure ==
  /\ trace[Len(trace)].op = "failed"
  /\ \A j \in 1..Len(trace) : trace[j].op # "save_obj"
  /\ written = <<>>
  /\ \A i \in 1..Len(logged) : logged[i].msg # "DONE!"
  /\ exc \in {"RuntimeError", "TypeError"}
  /\ pc \in {"raised", "host_ended"}

\* C16: a failing host operation in load, transform or save is not caught and
\* ends the invocation: no later step runs, save is not issued, completion is
\* not reported, and the process does not exit with status 0.
C16_HostFailureIsTerminal ==
  StepFailed => (EndsAtFailure /\ exitStatus # 0)

\* the objects of the scene are exactly the objects an import has just added
\* to an empty scene: named as the file names them, selected, without modifier
FreshlyLoaded(sc) ==
  \A i \in 1..Len(sc.objs) :
    /\ sc.objs[i].name = FileName(i)
    /\ sc.objs[i].sel
    /\ sc.objs[i].mods = <<>>

\* C11: in two successive successful calls of thething on one scene, the
\* scene is empty when each load is issued, so it holds only the loaded
\* objects after each load, and the second file written holds exactly the
\* objects of the second load, each with the depth of the second call
\* applied once; the scene then holds one modifier per object, of that depth.
C11_SecondRunIndependentOfFirst ==
  /\ pc = "load" => scene.objs = <<>>
  /\ pc = "deselect" => FreshlyLoaded(scene)
  /\ Len(written) <= 2
  /\ Len(written) = 2
       => /\ written[2].path = args.output
          /\ Len(written[2].meshes) = Len(scene.objs)
          /\ \A i \in 1..Len(scene.objs) :
               /\ scene.objs[i].name = FileName(i)
               /\ written[2].meshes[i].name = FileName(i)
               /\ written[2].meshes[i].applied = <<args.levels>>
               /\ scene.objs[i].mods =
                    <<[name |-> "subsurf", type |-> "SUBSURF", levels |-> args.levels]>>

C11_Witness ==
  /\ Len(written) = 2
  /\ Len(written[1].meshes) = 2
  /\ Len(written[2].meshes) = 1
  /\ written[1].meshes[1].applied = <<DefaultLevels>>
  /\ written[2].meshes[1].applied = <<3>>
  /\ scene0.objs # <<>>

====
